---- MODULE Spec2Model ----
(***************************************************************************)
(* Track-changes extension: blame map (attribution), commit history,       *)
(* selective revert and the highlight overlay.                             *)
(*                                                                         *)
(* The document is a flat sequence of characters; a position p lies        *)
(* between characters p and p+1 (0 .. Len(doc)).  Steps are ReplaceSteps   *)
(* [from, to, slice]; a StepMap is the single range [start, oldSize,       *)
(* newSize] that ReplaceStep.getMap() produces.  Indices of steps, maps    *)
(* and blame-map entries are the 0-based indices of the code; sequences    *)
(* are accessed at index + 1.                                              *)
(***************************************************************************)
EXTENDS Integers, Sequences, FiniteSets, TLC

\* ---------------------------------------------------------------- bounds
MaxSteps == 2        \* steps in one edit transaction
MaxTotalSteps == 3   \* steps of all edit transactions of a behaviour
ShortLen == 2        \* initial documents longer than this get LongMaxSteps
LongMaxSteps == 2    \* edit steps of a behaviour on a long initial document
MaxIns == 1          \* characters inserted by one step
MaxDocLen == 5       \* length of the document
MaxCommitOps == 2    \* doCommit commands of a behaviour
MaxReverts == 1      \* revertCommit commands of a behaviour
MaxHl == 2           \* highlightCommit / clearHighlightCommit commands
HlMaxSteps == 2      \* edit steps of a behaviour that uses highlight commands
MaxOps == 5          \* commands and edits of a behaviour

\* null / undefined, and indexOf's "not found"
Null == 0 - 1
\* span.commit of content that predates the history (undefined in the code)
NoCommit == Null
\* identity of a Commit object that is not in the history
ForeignCommit == 0 - 2

InitDocs == { <<"a", "b">>, <<"a", "b", "c">> }
Fresh == <<"X", "Y", "Z", "W", "V", "U", "T", "S">>

Min(a, b) == IF a < b THEN a ELSE b
Max(a, b) == IF a > b THEN a ELSE b

\* ------------------------------------------------------- data constructors
Span(from, to, commit) == [from |-> from, to |-> to, commit |-> commit]

Commit(id, message, time, steps, maps) ==
  [id |-> id, message |-> message, time |-> time, steps |-> steps, maps |-> maps]

ReplaceStep(from, to, slice) == [from |-> from, to |-> to, slice |-> slice]

StepMap(start, oldSize, newSize) ==
  [start |-> start, oldSize |-> oldSize, newSize |-> newSize]

\* new Mapping(maps): pipeline maps[from .. to), mirror = flat list of pairs
Mapping(maps, mirror, from, to) ==
  [maps |-> maps, mirror |-> mirror, from |-> from, to |-> to]

NewMapping(maps) == Mapping(maps, <<>>, 0, Len(maps))

\* ------------------------------------------------------------ ReplaceStep
SubDoc(d, from, to) == [k \in 1 .. (to - from) |-> d[from + k]]

\* step.apply(doc) on flat text: doc.replace(from, to, slice)
StepApply(d, s) ==
  SubDoc(d, 0, s.from) \o s.slice \o SubDoc(d, s.to, Len(d))

\* step.getMap()
StepGetMap(s) == StepMap(s.from, s.to - s.from, Len(s.slice))

\* step.invert(doc): doc is the document the step was applied to
StepInvert(s, d) ==
  ReplaceStep(s.from, s.from + Len(s.slice), SubDoc(d, s.from, s.to))

\* ---------------------------------------------------------------- StepMap
\* StepMap.mapResult(pos, assoc): [pos, deleted, across, recover];
\* recover is the offset into the (only) range, or Null.
StepMapResult(m, pos, assoc) ==
  LET end == m.start + m.oldSize IN
  IF m.start > pos
    THEN [pos |-> pos, deleted |-> FALSE, across |-> FALSE, recover |-> Null]
  ELSE IF pos <= end
    THEN LET side == IF m.oldSize = 0 THEN assoc
                     ELSE IF pos = m.start THEN 0 - 1
                     ELSE IF pos = end THEN 1
                     ELSE assoc
             result == m.start + (IF side < 0 THEN 0 ELSE m.newSize)
             keep == IF assoc < 0 THEN pos = m.start ELSE pos = end
         IN [pos |-> result,
             deleted |-> ~keep,
             across |-> (pos # m.start /\ pos # end),
             recover |-> IF keep THEN Null ELSE pos - m.start]
  ELSE [pos |-> pos + (m.newSize - m.oldSize), deleted |-> FALSE,
        across |-> FALSE, recover |-> Null]

\* StepMap.recover(value) for a map with one range
StepMapRecover(m, value) == m.start + value

\* --------------------------------------------------------------- Mapping
\* Mapping.getMirror(n): the first pair of the mirror list holding n
RECURSIVE GetMirrorFrom(_, _, _)
GetMirrorFrom(mirror, k, n) ==
  IF k > Len(mirror) THEN Null
  ELSE IF mirror[k] = n
    THEN (IF k % 2 = 1 THEN mirror[k + 1] ELSE mirror[k - 1])
  ELSE GetMirrorFrom(mirror, k + 1, n)

GetMirror(mp, n) == GetMirrorFrom(mp.mirror, 1, n)

\* Mapping._map(pos, assoc): the loop over maps[from .. to), jumping to the
\* mirror of a map that deleted the position.
RECURSIVE MappingMapFrom(_, _, _, _, _, _)
MappingMapFrom(mp, i, pos, assoc, deleted, across) ==
  IF i >= mp.to THEN [pos |-> pos, deleted |-> deleted, across |-> across]
  ELSE LET r == StepMapResult(mp.maps[i + 1], pos, assoc)
           corr == GetMirror(mp, i)
       IN IF r.recover # Null /\ corr # Null /\ corr > i /\ corr < mp.to
            THEN MappingMapFrom(mp, corr + 1,
                                StepMapRecover(mp.maps[corr + 1], r.recover),
                                assoc, deleted, across)
            ELSE MappingMapFrom(mp, i + 1, r.pos, assoc,
                                deleted \/ r.deleted, across \/ r.across)

MappingMapResult(mp, pos, assoc) ==
  MappingMapFrom(mp, mp.from, pos, assoc, FALSE, FALSE)

\* Mapping.map(pos, assoc)
MappingMap(mp, pos, assoc) == MappingMapResult(mp, pos, assoc).pos

\* Mapping.slice(from)
MappingSlice(mp, from) == Mapping(mp.maps, mp.mirror, from, Len(mp.maps))

\* Mapping.appendMap(map, mirrors)
MappingAppendMap(mp, m, mirrors) ==
  Mapping(Append(mp.maps, m),
          mp.mirror \o <<Len(mp.maps), mirrors>>,
          mp.from, Len(mp.maps) + 1)

\* The transform library is a dependency the repository does not pin: its
\* releases before 1.4 make Step.map test MapResult.deleted, later ones
\* MapResult.deletedAcross.
Libs == {"deleted", "deletedAcross"}

\* step.map(mapping): <<>> for null, else <<the remapped step>>; lib tells
\* which release of the library the build holds.
StepMapThrough(s, mp, lib) ==
  LET from == MappingMapResult(mp, s.from, 1)
      to == MappingMapResult(mp, s.to, 0 - 1)
      gone == IF lib = "deletedAcross" THEN from.across /\ to.across
                           ELSE from.deleted /\ to.deleted
  IN IF gone THEN <<>>
     ELSE <<ReplaceStep(from.pos, Max(from.pos, to.pos), s.slice)>>

\* ------------------------------------------------------------- Transform
\* A Transform over the steps `steps` starting at document d:
\* docs[i] is the document before steps[i], doc the final document.
RECURSIVE TransformDocs(_, _)
TransformDocs(d, steps) ==
  IF steps = <<>> THEN <<>>
  ELSE <<d>> \o TransformDocs(StepApply(d, Head(steps)), Tail(steps))

RECURSIVE TransformDoc(_, _)
TransformDoc(d, steps) ==
  IF steps = <<>> THEN d
  ELSE TransformDoc(StepApply(d, Head(steps)), Tail(steps))

TransformMaps(steps) == [i \in 1 .. Len(steps) |-> StepGetMap(steps[i])]

\* ------------------------------------------------------- array primitives
\* Array.splice(pos, 0, x), Array.splice(pos, 1), a[pos] = x (0-based pos)
SpliceIn(a, pos, x) ==
  SubSeq(a, 1, pos) \o <<x>> \o SubSeq(a, pos + 1, Len(a))
SpliceOut(a, pos) ==
  SubSeq(a, 1, pos) \o SubSeq(a, pos + 2, Len(a))
SetAt(a, pos, x) == [a EXCEPT ![pos + 1] = x]

\* -------------------------------------------------------------- blame map
\* insertIntoBlameMap, first loop: find the first span that is not entirely
\* before `from`, splitting off its left part when it belongs to another commit.
RECURSIVE InsertScan(_, _, _, _, _)
InsertScan(map, pos, from, to, commit) ==
  IF pos >= Len(map) THEN [map |-> map, pos |-> pos]
  ELSE LET next == map[pos + 1] IN
    IF next.commit = commit
      THEN (IF next.to >= from THEN [map |-> map, pos |-> pos]
            ELSE InsertScan(map, pos + 1, from, to, commit))
    ELSE IF next.to > from
      THEN (IF next.from < from
              THEN LET left == Span(next.from, from, next.commit) IN
                   IF next.to > to
                     THEN [map |-> SpliceIn(map, pos, left), pos |-> pos + 1]
                     ELSE [map |-> SetAt(map, pos, left), pos |-> pos + 1]
              ELSE [map |-> map, pos |-> pos])
    ELSE InsertScan(map, pos + 1, from, to, commit)

\* insertIntoBlameMap, second loop and the final splice
RECURSIVE InsertMerge(_, _, _, _, _)
InsertMerge(map, pos, from, to, commit) ==
  IF pos >= Len(map) THEN SpliceIn(map, pos, Span(from, to, commit))
  ELSE LET next == map[pos + 1] IN
    IF next.commit = commit
      THEN (IF next.from > to
              THEN SpliceIn(map, pos, Span(from, to, commit))
              ELSE InsertMerge(SpliceOut(map, pos), pos,
                               Min(from, next.from), Max(to, next.to), commit))
    ELSE IF next.from >= to
      THEN SpliceIn(map, pos, Span(from, to, commit))
    ELSE IF next.to > to
      THEN SpliceIn(SetAt(map, pos, Span(to, next.to, next.commit)),
                    pos, Span(from, to, commit))
    ELSE InsertMerge(SpliceOut(map, pos), pos, from, to, commit)

\* insertIntoBlameMap without its first loop: the merge starts at the first
\* span of the map
insertIntoBlameMapNoScan(map, from, to, commit) ==
  IF from >= to THEN map
  ELSE InsertMerge(map, 0, from, to, commit)

insertIntoBlameMap(map, from, to, commit) ==
  IF from >= to THEN map
  ELSE LET s == InsertScan(map, 0, from, to, commit)
       IN InsertMerge(s.map, s.pos, from, to, commit)

\* updateBlameMap, first loop: remap the surviving spans
RECURSIVE RemapSpans(_, _)
RemapSpans(map, mapping) ==
  IF map = <<>> THEN <<>>
  ELSE LET span == Head(map)
           from == MappingMap(mapping, span.from, 1)
           to == MappingMap(mapping, span.to, 0 - 1)
       IN (IF from < to THEN <<Span(from, to, span.commit)>> ELSE <<>>)
          \o RemapSpans(Tail(map), mapping)

\* updateBlameMap, second loop: the inserted range of every step map
RECURSIVE InsertNew(_, _, _, _)
InsertNew(result, mapping, i, id) ==
  IF i >= Len(mapping.maps) THEN result
  ELSE LET m == mapping.maps[i + 1]
           after == MappingSlice(mapping, i + 1)
           start == m.start
           end == m.start + m.newSize
       IN InsertNew(insertIntoBlameMap(result,
                                       MappingMap(after, start, 1),
                                       MappingMap(after, end, 0 - 1), id),
                    mapping, i + 1, id)

\* updateBlameMap without its second loop: new content is never attributed
updateBlameMapNoInsert(map, mapping, id) == RemapSpans(map, mapping)

updateBlameMap(map, mapping, id) ==
  InsertNew(RemapSpans(map, mapping), mapping, 0, id)

\* ------------------------------------------------------------- TrackState
TrackState(blameMap, commits, uncommittedSteps, uncommittedMaps) ==
  [blameMap |-> blameMap, commits |-> commits,
   uncommittedSteps |-> uncommittedSteps, uncommittedMaps |-> uncommittedMaps]

\* A transaction: its steps, the commit message set on it for the track
\* plugin (metaSet says whether one was set) and the highlight meta
\* (hlAdd / hlClear hold a commit identity, or Undefined when the key is absent).
Undefined == 0 - 3
Transaction(steps, metaSet, message, hlSet, hlAdd, hlClear) ==
  [steps |-> steps, metaSet |-> metaSet, message |-> message,
   hlSet |-> hlSet, hlAdd |-> hlAdd, hlClear |-> hlClear]

EmptyTr == Transaction(<<>>, FALSE, <<>>, FALSE, Undefined, Undefined)

\* tr.docChanged
DocChanged(tr) == Len(tr.steps) > 0

\* applyTransform that attributes new content to the index after the next commit
applyTransformNextId(ts, steps, d) ==
  LET docs == TransformDocs(d, steps)
      maps == TransformMaps(steps)
      inverted == [i \in 1 .. Len(steps) |-> StepInvert(steps[i], docs[i])]
      newBlame == updateBlameMap(ts.blameMap, NewMapping(maps),
                                 Len(ts.commits) + 1)
  IN TrackState(newBlame, ts.commits,
                ts.uncommittedSteps \o inverted,
                ts.uncommittedMaps \o maps)

\* TrackState.applyTransform(transform); d is the document the transform starts at
applyTransform(ts, steps, d) ==
  LET docs == TransformDocs(d, steps)
      maps == TransformMaps(steps)
      inverted == [i \in 1 .. Len(steps) |-> StepInvert(steps[i], docs[i])]
      newBlame == updateBlameMap(ts.blameMap, NewMapping(maps), Len(ts.commits))
  IN TrackState(newBlame, ts.commits,
                ts.uncommittedSteps \o inverted,
                ts.uncommittedMaps \o maps)

\* applyCommit that leaves the pending buffers as they were
applyCommitKeepPending(ts, message, time) ==
  IF Len(ts.uncommittedSteps) = 0 THEN ts
  ELSE TrackState(ts.blameMap,
                  Append(ts.commits,
                         Commit(Len(ts.commits), message, time,
                                ts.uncommittedSteps, ts.uncommittedMaps)),
                  ts.uncommittedSteps, ts.uncommittedMaps)

\* applyCommit that puts the new Commit in front of the history
applyCommitPrepend(ts, message, time) ==
  IF Len(ts.uncommittedSteps) = 0 THEN ts
  ELSE TrackState(ts.blameMap,
                  <<Commit(Len(ts.commits), message, time,
                           ts.uncommittedSteps, ts.uncommittedMaps)>>
                    \o ts.commits,
                  <<>>, <<>>)

\* applyCommit without the test for an empty pending buffer
applyCommitAlways(ts, message, time) ==
  TrackState(ts.blameMap,
             Append(ts.commits,
                    Commit(Len(ts.commits), message, time,
                           ts.uncommittedSteps, ts.uncommittedMaps)),
             <<>>, <<>>)

\* TrackState.applyCommit(message, time); a new Commit object gets the
\* identity Len(commits), which no other object of the history carries
applyCommit(ts, message, time) ==
  IF Len(ts.uncommittedSteps) = 0 THEN ts
  ELSE TrackState(ts.blameMap,
                  Append(ts.commits,
                         Commit(Len(ts.commits), message, time,
                                ts.uncommittedSteps, ts.uncommittedMaps)),
                  <<>>, <<>>)

\* TrackChangesPlugin.state.init
TrackInit(d) == TrackState(<<Span(0, Len(d), NoCommit)>>, <<>>, <<>>, <<>>)

\* TrackChangesPlugin.state.apply(tr, tracked); a message is truthy when it
\* was set and is not the empty string
TrackApply(tr, ts, d, time) ==
  LET t1 == IF DocChanged(tr) THEN applyTransform(ts, tr.steps, d) ELSE ts
  IN IF tr.metaSet /\ tr.message # <<>>
       THEN applyCommit(t1, tr.message, time)
       ELSE t1

\* ---------------------------------------------------------- highlightPlugin
HighlightInit == [deco |-> {}, commit |-> Null]

\* blameMap.filter(span => span.commit && commits[span.commit] === add):
\* an undefined commit and the commit 0 are falsy; commits[i] past the end
\* is undefined
BlameDecos(ts, add) ==
  { [from |-> ts.blameMap[k].from, to |-> ts.blameMap[k].to] :
      k \in { j \in 1 .. Len(ts.blameMap) :
                /\ ts.blameMap[j].commit # NoCommit
                /\ ts.blameMap[j].commit # 0
                /\ ts.blameMap[j].commit < Len(ts.commits)
                /\ ts.commits[ts.blameMap[j].commit + 1].id = add } }

\* DecorationSet.map(mapping): an inline decoration maps its start with
\* assoc 1 and its end with assoc -1 and is dropped when it becomes empty
DecoMap(deco, mapping) ==
  { r \in { [from |-> MappingMap(mapping, x.from, 1),
             to |-> MappingMap(mapping, x.to, 0 - 1)] : x \in deco } :
      r.from < r.to }

\* highlightPlugin.state.apply that toggles: adding the active commit clears it
HighlightApplyToggle(tr, prev, oldTs) ==
  IF tr.hlSet /\ tr.hlAdd # Null /\ tr.hlAdd # Undefined /\ prev.commit # tr.hlAdd
    THEN [deco |-> BlameDecos(oldTs, tr.hlAdd), commit |-> tr.hlAdd]
  ELSE IF tr.hlSet /\ (prev.commit = tr.hlClear \/ prev.commit = tr.hlAdd)
    THEN [deco |-> {}, commit |-> Null]
  ELSE IF DocChanged(tr) /\ prev.commit # Null
    THEN [deco |-> DecoMap(prev.deco, NewMapping(TransformMaps(tr.steps))),
          commit |-> prev.commit]
  ELSE prev

\* highlightPlugin.state.apply that clears on any clear request, whatever
\* commit it names
HighlightApplyClearAny(tr, prev, oldTs) ==
  IF tr.hlSet /\ tr.hlAdd # Null /\ tr.hlAdd # Undefined /\ prev.commit # tr.hlAdd
    THEN [deco |-> BlameDecos(oldTs, tr.hlAdd), commit |-> tr.hlAdd]
  ELSE IF tr.hlSet /\ tr.hlClear # Null /\ tr.hlClear # Undefined
    THEN [deco |-> {}, commit |-> Null]
  ELSE IF DocChanged(tr) /\ prev.commit # Null
    THEN [deco |-> DecoMap(prev.deco, NewMapping(TransformMaps(tr.steps))),
          commit |-> prev.commit]
  ELSE prev

\* highlightPlugin.state.apply that keeps the decorations where they were
\* when the document changes
HighlightApplyNoRemap(tr, prev, oldTs) ==
  IF tr.hlSet /\ tr.hlAdd # Null /\ tr.hlAdd # Undefined /\ prev.commit # tr.hlAdd
    THEN [deco |-> BlameDecos(oldTs, tr.hlAdd), commit |-> tr.hlAdd]
  ELSE IF tr.hlSet /\ tr.hlClear # Null /\ prev.commit = tr.hlClear
    THEN [deco |-> {}, commit |-> Null]
  ELSE prev

\* highlightPlugin.state.apply(tr, prev, oldState, state)
HighlightApply(tr, prev, oldTs) ==
  IF tr.hlSet /\ tr.hlAdd # Null /\ tr.hlAdd # Undefined /\ prev.commit # tr.hlAdd
    THEN [deco |-> BlameDecos(oldTs, tr.hlAdd), commit |-> tr.hlAdd]
  ELSE IF tr.hlSet /\ tr.hlClear # Null /\ prev.commit = tr.hlClear
    THEN [deco |-> {}, commit |-> Null]
  ELSE IF DocChanged(tr) /\ prev.commit # Null
    THEN [deco |-> DecoMap(prev.deco, NewMapping(TransformMaps(tr.steps))),
          commit |-> prev.commit]
  ELSE prev

\* ------------------------------------------------------------ revertCommit
\* commits.indexOf(commit): commits are compared by identity
RECURSIVE IndexOfFrom(_, _, _)
IndexOfFrom(commits, k, id) ==
  IF k > Len(commits) THEN Null
  ELSE IF commits[k].id = id THEN k - 1
  ELSE IndexOfFrom(commits, k + 1, id)

IndexOf(commits, id) == IndexOfFrom(commits, 1, id)

\* commits.slice(index).reduce((maps, c) => maps.concat(c.maps), [])
RECURSIVE ConcatMaps(_, _)
ConcatMaps(commits, k) ==
  IF k > Len(commits) THEN <<>>
  ELSE commits[k].maps \o ConcatMaps(commits, k + 1)

\* tr.maybeStep(step) resolves the step's positions in tr.doc; a position
\* outside the document raises a RangeError that nothing catches
StepInRange(d, s) == 0 <= s.from /\ s.from <= s.to /\ s.to <= Len(d)

\* remap.slice(i) in place of remap.slice(i + 1): the step is also mapped
\* over the map of the very step it inverts
RevertSliceEarly(remap, i) == MappingSlice(remap, i)

\* remap.slice(i + 1): the maps after step i, the maps of later commits and
\* the maps of the inverse steps applied so far
RevertSlice(remap, i) == MappingSlice(remap, i + 1)

\* remap.appendMap(map) without the mirror index
RevertAppendNoMirror(remap, step, i) ==
  Mapping(Append(remap.maps, StepGetMap(step)), remap.mirror,
          remap.from, Len(remap.maps) + 1)

\* remap.appendMap(remapped.getMap(), i)
RevertAppend(remap, step, i) == MappingAppendMap(remap, StepGetMap(step), i)

\* revertCommit's loop that stops at the first step that cannot be remapped
RECURSIVE RevertLoopAbort(_, _, _, _)
RevertLoopAbort(r, commit, i, lib) ==
  IF i < 0 \/ r.threw THEN r
  ELSE LET remapped == StepMapThrough(commit.steps[i + 1],
                                      RevertSlice(r.remap, i), lib)
       IN IF remapped = <<>> THEN r
          ELSE IF ~StepInRange(r.doc, remapped[1])
            THEN [r EXCEPT !.threw = TRUE]
          ELSE RevertLoopAbort(
                 [steps |-> Append(r.steps, remapped[1]),
                  doc |-> StepApply(r.doc, remapped[1]),
                  remap |-> RevertAppend(r.remap, remapped[1], i),
                  threw |-> FALSE,
                  tried |-> Append(r.tried, [i |-> i, applied |-> TRUE])],
                 commit, i - 1, lib)

\* The loop of revertCommit from index i down to 0.  r holds the transaction's
\* steps and document so far, the remap pipeline, whether a step threw, and
\* the iterations made so far: the index of each and whether its step was
\* added to the transaction.
RECURSIVE RevertLoop(_, _, _, _)
RevertLoop(r, commit, i, lib) ==
  IF i < 0 \/ r.threw THEN r
  ELSE LET remapped == StepMapThrough(commit.steps[i + 1],
                                      RevertSlice(r.remap, i), lib)
       IN IF remapped = <<>>
            THEN RevertLoop([r EXCEPT !.tried =
                               Append(@, [i |-> i, applied |-> FALSE])],
                            commit, i - 1, lib)
          ELSE IF ~StepInRange(r.doc, remapped[1])
            THEN [r EXCEPT !.threw = TRUE]
          ELSE RevertLoop(
                 [steps |-> Append(r.steps, remapped[1]),
                  doc |-> StepApply(r.doc, remapped[1]),
                  remap |-> RevertAppend(r.remap, remapped[1], i),
                  threw |-> FALSE,
                  tried |-> Append(r.tried, [i |-> i, applied |-> TRUE])],
                 commit, i - 1, lib)

\* the state of the loop before its first iteration
RevertStart(ts, d, index) ==
  [steps |-> <<>>, doc |-> d,
   remap |-> NewMapping(ConcatMaps(ts.commits, index + 1)),
   threw |-> FALSE, tried |-> <<>>]

\* revertCommit without the check for uncommitted changes
revertCommitNoPendingCheck(ts, d, id, lib) ==
  LET index == IndexOf(ts.commits, id) IN
  IF index = Null THEN [ret |-> FALSE, threw |-> FALSE, tr |-> EmptyTr]
  ELSE LET commit == ts.commits[index + 1]
           r == RevertLoop(RevertStart(ts, d, index),
                           commit, Len(commit.steps) - 1, lib)
       IN [ret |-> ~r.threw, threw |-> r.threw,
           tr |-> IF r.threw THEN EmptyTr
                  ELSE Transaction(r.steps, Len(r.steps) > 0,
                                   IF Len(r.steps) > 0
                                     THEN <<"Revert">> \o commit.message
                                     ELSE <<>>,
                                   FALSE, Undefined, Undefined)]

\* revertCommit(commit)({state}): [ret, threw, tr]
revertCommit(ts, d, id, lib) ==
  LET index == IndexOf(ts.commits, id) IN
  IF index = Null THEN [ret |-> FALSE, threw |-> FALSE, tr |-> EmptyTr]
  ELSE IF Len(ts.uncommittedSteps) # 0
    THEN [ret |-> FALSE, threw |-> FALSE, tr |-> EmptyTr]
  ELSE LET commit == ts.commits[index + 1]
           r == RevertLoop(RevertStart(ts, d, index),
                           commit, Len(commit.steps) - 1, lib)
       IN [ret |-> ~r.threw, threw |-> r.threw,
           tr |-> IF r.threw THEN EmptyTr
                  ELSE Transaction(r.steps, Len(r.steps) > 0,
                                   IF Len(r.steps) > 0
                                     THEN <<"Revert">> \o commit.message
                                     ELSE <<>>,
                                   FALSE, Undefined, Undefined)]

\* ------------------------------------------------------------------ state
VARIABLES
  doc,        \* the editor's document
  tracked,    \* TrackChangesPlugin's state, a TrackState
  highlight,  \* highlightPlugin's state {deco, commit}
  lib,        \* the release of the transform library in the build; it is
              \* "unknown" until the first revert that maps a step, the only
              \* place the releases differ
  time,       \* clock the transactions are stamped with
  used,       \* how much of each bound the behaviour has used
  snaps,      \* history variable: snaps[i + 1] is the document before commit i,
              \* the last entry the document after the last commit
  last        \* history variable: the last command, what it returned, the
              \* transaction it dispatched and the state it ran on

vars == <<doc, tracked, highlight, lib, time, used, snaps, last>>

MsgNames == <<"c0", "c1", "c2", "c3", "c4", "c5", "c6", "c7">>

Init ==
  /\ doc \in InitDocs
  /\ tracked = TrackInit(doc)
  /\ highlight = HighlightInit
  /\ lib = "unknown"
  /\ time = 0
  /\ used = [steps |-> 0, fresh |-> 0, commits |-> 0, reverts |-> 0, hl |-> 0]
  /\ snaps = <<doc>>
  /\ last = [cmd |-> "init", arg |-> Null, ret |-> TRUE, threw |-> FALSE,
             tr |-> EmptyTr, doc |-> doc, tracked |-> tracked,
             highlight |-> highlight]

\* The editor runs a command on the current state and dispatches the
\* command's transaction: EditorState.apply hands it to both plugins, the
\* highlight plugin reading the track state of the old editor state.
Dispatch(cmd, arg, ret, tr) ==
  /\ time < MaxOps
  /\ doc' = TransformDoc(doc, tr.steps)
  /\ tracked' = TrackApply(tr, tracked, doc, time + 1)
  /\ highlight' = HighlightApply(tr, highlight, tracked)
  /\ time' = time + 1
  /\ snaps' = IF Len(tracked'.commits) > Len(tracked.commits)
                THEN Append(snaps, doc') ELSE snaps
  /\ last' = [cmd |-> cmd, arg |-> arg, ret |-> ret, threw |-> FALSE,
              tr |-> tr, doc |-> doc, tracked |-> tracked,
              highlight |-> highlight]

\* An exception leaves the command: nothing is dispatched
Throw(cmd, arg) ==
  /\ time < MaxOps
  /\ time' = time + 1
  /\ last' = [cmd |-> cmd, arg |-> arg, ret |-> FALSE, threw |-> TRUE,
              tr |-> EmptyTr, doc |-> doc, tracked |-> tracked,
              highlight |-> highlight]
  /\ UNCHANGED <<doc, tracked, highlight, snaps>>

\* ---------------------------------------------------------- user editing
FreshSlice(k, m) == [j \in 1 .. m |-> Fresh[k + j]]

\* The ReplaceSteps a user edit can make on document d: replace [f, t) by
\* m new characters, changing something and keeping the document in bounds
StepsOn(d, k) ==
  { ReplaceStep(f, t, FreshSlice(k, m)) :
      <<f, t, m>> \in { x \in (0 .. Len(d)) \X (0 .. Len(d)) \X (0 .. MaxIns) :
                          /\ x[1] <= x[2]
                          /\ ~(x[1] = x[2] /\ x[3] = 0)
                          /\ Len(d) - (x[2] - x[1]) + x[3] <= MaxDocLen
                          /\ k + x[3] <= Len(Fresh) } }

\* The step sequences of at most n steps a transaction can hold
RECURSIVE Transforms(_, _, _)
Transforms(d, k, n) ==
  IF n <= 0 THEN {<<>>}
  ELSE {<<>>} \cup
       UNION { { <<s>> \o rest :
                   rest \in Transforms(StepApply(d, s), k + Len(s.slice), n - 1) } :
               s \in StepsOn(d, k) }

RECURSIVE Inserted(_)
Inserted(steps) ==
  IF steps = <<>> THEN 0 ELSE Len(Head(steps).slice) + Inserted(Tail(steps))

\* Behaviours on a long initial document, and behaviours that use highlight
\* commands, are explored with fewer edit steps
LongDoc == Len(snaps[1]) > ShortLen
StepBudget ==
  IF LongDoc THEN LongMaxSteps
  ELSE IF used.hl > 0 THEN HlMaxSteps
  ELSE MaxTotalSteps

\* A user edit: a transaction of one or more steps, no meta
Edit ==
  \E steps \in Transforms(doc, used.fresh,
                          Min(MaxSteps, StepBudget - used.steps)) \ {<<>>} :
    /\ used' = [used EXCEPT !.steps = @ + Len(steps),
                            !.fresh = @ + Inserted(steps)]
    /\ Dispatch("edit", Null, TRUE,
                Transaction(steps, FALSE, <<>>, FALSE, Undefined, Undefined))
    /\ UNCHANGED lib

\* --------------------------------------------------------------- commands
\* doCommit(message): sets the message on the transaction and returns true
doCommit(message) ==
  [ret |-> TRUE,
   tr |-> Transaction(<<>>, TRUE, message, FALSE, Undefined, Undefined)]

DoCommit ==
  /\ used.commits < MaxCommitOps
  /\ \E message \in {<<MsgNames[Len(tracked.commits) + 1]>>, <<>>} :
       LET c == doCommit(message) IN
       /\ used' = [used EXCEPT !.commits = @ + 1]
       /\ Dispatch("doCommit", Null, c.ret, c.tr)
       /\ UNCHANGED lib

\* The Commit objects a host can hold: those of the history and a foreign one
CommitIds == (0 .. Len(tracked.commits) - 1) \cup {ForeignCommit}

\* revertCommit gets past its two early returns
RevertRuns(ts, id) ==
  IndexOf(ts.commits, id) # Null /\ Len(ts.uncommittedSteps) = 0

RevertCommit ==
  /\ used.reverts < MaxReverts
  /\ \E id \in CommitIds :
       \E l \in (IF lib # "unknown" THEN {lib}
                 ELSE IF RevertRuns(tracked, id) THEN Libs
                 ELSE {"unknown"}) :
         LET r == revertCommit(tracked, doc, id, l) IN
         /\ lib' = l
         /\ used' = [used EXCEPT !.reverts = @ + 1]
         /\ IF r.threw THEN Throw("revertCommit", id)
                       ELSE Dispatch("revertCommit", id, r.ret, r.tr)

\* highlightCommit(commit)
highlightCommit(id) ==
  [ret |-> TRUE, tr |-> Transaction(<<>>, FALSE, <<>>, TRUE, id, Undefined)]

\* clearHighlightCommit(commit)
clearHighlightCommit(id) ==
  [ret |-> TRUE, tr |-> Transaction(<<>>, FALSE, <<>>, TRUE, Undefined, id)]

HighlightCommit ==
  /\ used.hl < MaxHl
  /\ ~LongDoc /\ used.steps <= HlMaxSteps
  /\ \E id \in CommitIds :
       LET c == highlightCommit(id) IN
       /\ used' = [used EXCEPT !.hl = @ + 1]
       /\ Dispatch("highlightCommit", id, c.ret, c.tr)
       /\ UNCHANGED lib

ClearHighlightCommit ==
  /\ used.hl < MaxHl
  /\ ~LongDoc /\ used.steps <= HlMaxSteps
  /\ \E id \in CommitIds :
       LET c == clearHighlightCommit(id) IN
       /\ used' = [used EXCEPT !.hl = @ + 1]
       /\ Dispatch("clearHighlightCommit", id, c.ret, c.tr)
       /\ UNCHANGED lib

Next ==
  \/ Edit
  \/ DoCommit
  \/ RevertCommit
  \/ HighlightCommit
  \/ ClearHighlightCommit

Spec == Init /\ [][Next]_vars

\* ------------------------------------------------------- derived notions
Chars(d) == { d[k] : k \in 1 .. Len(d) }
Unique(d) == \A j, k \in 1 .. Len(d) : d[j] = d[k] => j = k

\* the commit a document position is attributed to (positions are 0-based)
Attribution(map, p) ==
  LET hit == { k \in 1 .. Len(map) : map[k].from <= p /\ p < map[k].to }
  IN IF hit = {} THEN Undefined ELSE map[CHOOSE k \in hit : TRUE].commit

\* the last dispatch created a commit
CommitCreated == Len(tracked.commits) = Len(last.tracked.commits) + 1

\* ----------------------------------------------------------------- claims

\* C1 (full coverage): in every reachable state the blame map's spans are
\* sorted by from, pairwise non-overlapping, each has from < to, and their
\* union is exactly [0, document length) with no gaps.
C1_FullCoverage ==
  LET m == tracked.blameMap IN
  /\ \A k \in 1 .. Len(m) : m[k].from < m[k].to
  /\ \A j, k \in 1 .. Len(m) : j < k => m[j].from <= m[k].from
  /\ \A j, k \in 1 .. Len(m) :
       j # k => (m[j].to <= m[k].from \/ m[k].to <= m[j].from)
  /\ UNION { m[k].from .. (m[k].to - 1) : k \in 1 .. Len(m) }
       = 0 .. (Len(doc) - 1)

\* C1 witness: a revert has been applied on top of an edited document and
\* the blame map holds spans of several commits
C1_Witness ==
  /\ last.cmd = "revertCommit" /\ last.ret /\ DocChanged(last.tr)
  /\ Len(tracked.blameMap) >= 3
  /\ \E k \in 1 .. Len(tracked.blameMap) : tracked.blameMap[k].commit = 1

\* C2 (maximal coalescing): in every reachable state no two adjacent spans
\* of the blame map carry the same attribution.
C2_MaximalCoalescing ==
  LET m == tracked.blameMap IN
  \A k \in 1 .. (Len(m) - 1) : m[k].commit # m[k + 1].commit

\* C2 failing input reached: the separating content of two unattributed
\* spans has been deleted
C2_Reached ==
  /\ last.cmd = "edit"
  /\ Len(tracked.blameMap) = 2
  /\ tracked.blameMap[1].commit = NoCommit
  /\ tracked.blameMap[2].commit = NoCommit

\* ---- revert: what the last command reverted
\* index of the reverted commit in the history the revert ran on
RevertIndex == IndexOf(last.tracked.commits, last.arg)
RevertDone == last.cmd = "revertCommit" /\ last.ret

\* C3 (round trip): committing a non-empty sequence of edits and then
\* immediately reverting that commit (it is the newest commit, nothing is
\* pending) yields the document content from before the first of those edits.
C3_RoundTrip ==
  (RevertDone /\ RevertIndex = Len(last.tracked.commits) - 1)
    => doc = snaps[RevertIndex + 1]

\* C3 witness: the newest commit, made of two steps, has been reverted
C3_Witness ==
  /\ RevertDone
  /\ RevertIndex = Len(last.tracked.commits) - 1
  /\ Len(last.tracked.commits[RevertIndex + 1].steps) >= 2
  /\ Len(last.tr.steps) >= 2
  /\ doc # last.doc

\* ---- C4: the reference document of a selective revert
Pad(d) == <<"^">> \o d \o <<"$">>

IndexIn(d, x) == CHOOSE k \in 1 .. Len(d) : d[k] = x

\* the characters that follow x in document b and are absent from document a
RECURSIVE RunAfter(_, _, _)
RunAfter(b, k, a) ==
  IF k > Len(b) \/ b[k] \in Chars(a) THEN <<>>
  ELSE <<b[k]>> \o RunAfter(b, k + 1, a)

\* document n with the target commit undone: b and a are the documents
\* before and after the target commit.  Characters the commit inserted are
\* dropped, characters it deleted are put back after their left neighbour.
RECURSIVE Undone(_, _, _)
Undone(n, b, a) ==
  IF n = <<>> THEN <<>>
  ELSE LET x == Head(n) IN
       (IF x \in Chars(a) /\ x \notin Chars(b) THEN <<>>
        ELSE IF x \in Chars(b) THEN <<x>> \o RunAfter(b, IndexIn(b, x) + 1, a)
        ELSE <<x>>)
       \o Undone(Tail(n), b, a)

\* the positions k of a (padded) where a range of the target commit starts:
\* a[k] is kept by the commit and what follows it, up to the next kept
\* character, was inserted by the commit or had deleted content
ChangedGaps(b, a) ==
  { k \in 1 .. (Len(a) - 1) :
      /\ a[k] \in Chars(b)
      /\ \/ a[k + 1] \notin Chars(b)
         \/ b[IndexIn(b, a[k]) + 1] \notin Chars(a) }

\* end of the range that starts at k: the next character of a kept by the commit
RECURSIVE GapEnd(_, _, _)
GapEnd(b, a, k) ==
  IF k >= Len(a) \/ a[k] \in Chars(b) THEN k ELSE GapEnd(b, a, k + 1)

\* later edits left the target commit's ranges alone: every range, with the
\* kept character on either side of it, is still contiguous in n, and nothing
\* the commit deleted is back in n
Disjoint(n, b, a) ==
  /\ \A k \in ChangedGaps(b, a) :
       LET e == GapEnd(b, a, k + 1) IN
       /\ a[k] \in Chars(n)
       /\ LET p == IndexIn(n, a[k]) IN
          /\ p + (e - k) <= Len(n)
          /\ \A j \in 0 .. (e - k) : n[p + j] = a[k + j]
  /\ \A k \in 1 .. Len(b) : b[k] \notin Chars(a) => b[k] \notin Chars(n)

\* The documents after the target commit and after every later commit (the
\* last of them is the document the revert ran on) all keep the target
\* commit's ranges untouched.
C4_Pre ==
  /\ RevertDone
  /\ RevertIndex < Len(last.tracked.commits) - 1
  /\ last.doc = snaps[Len(last.tracked.commits) + 1]
  /\ Unique(snaps[RevertIndex + 1])
  /\ \A j \in (RevertIndex + 2) .. (Len(last.tracked.commits) + 1) :
       /\ Unique(snaps[j])
       /\ Disjoint(Pad(snaps[j]), Pad(snaps[RevertIndex + 1]),
                   Pad(snaps[RevertIndex + 2]))

\* C4 (selective revert): reverting a past commit after later commits whose
\* edits do not touch the target commit's ranges yields the document with
\* the target commit's effect undone and every later commit's content kept.
C4_SelectiveRevert ==
  C4_Pre =>
    Pad(doc) = Undone(Pad(last.doc), Pad(snaps[RevertIndex + 1]),
                      Pad(snaps[RevertIndex + 2]))

\* C4 witness: a two-step commit that both inserted and deleted content has
\* been reverted after a later commit that changed the document elsewhere
C4_Witness ==
  /\ C4_Pre
  /\ Len(last.tracked.commits[RevertIndex + 1].steps) = 2
  /\ Chars(snaps[RevertIndex + 2]) \ Chars(snaps[RevertIndex + 1]) # {}
  /\ Chars(snaps[RevertIndex + 1]) \ Chars(snaps[RevertIndex + 2]) # {}
  /\ last.doc # snaps[RevertIndex + 2]
  /\ doc # last.doc

\* ---- C5: scenario 3
Scenario3 ==
  /\ last.cmd = "revertCommit" /\ last.arg = 0
  /\ snaps[1] = <<"a", "b", "c">>
  /\ Len(last.tracked.commits) = 2
  /\ last.tracked.commits[1].message = <<"c0">>
  /\ last.tracked.commits[1].steps = <<ReplaceStep(1, 2, <<>>)>>
  /\ snaps[2] = <<"a", "X", "b", "c">>
  /\ last.tracked.commits[2].message = <<"c1">>
  /\ last.tracked.commits[2].steps = <<ReplaceStep(3, 4, <<>>)>>
  /\ last.doc = <<"a", "X", "b", "Y", "c">>

\* C5 as stated: document "abc", insert "X" at 1, commit "c0", insert "Y" at
\* 3, commit "c1", revert "c0" results in the document "aYc".
C5_Scenario3_Original == Scenario3 => doc = <<"a", "Y", "c">>

\* C5 amended: the same scenario results in the document "abYc".
C5_Scenario3 == Scenario3 => doc = <<"a", "b", "Y", "c">>

C5_Witness == Scenario3 /\ last.ret

\* ---- C6: commit ids
\* C6 (commit id correctness): every span's attribution is absent or an
\* index i <= commits.length, with i = commits.length only while the pending
\* buffer is non-empty; content inserted since the previous commit carries
\* the id commits.length, and when a commit is created its index is that id
\* (a document of length n plus an insertion of k characters at n, committed,
\* gives the spans [0, n, none], [n, n + k, 0]).
C6_CommitIds ==
  LET m == tracked.blameMap
      n == Len(tracked.commits)
  IN
  /\ \A k \in 1 .. Len(m) :
       m[k].commit = NoCommit \/ (0 <= m[k].commit /\ m[k].commit <= n)
  /\ (\E k \in 1 .. Len(m) : m[k].commit = n)
       => Len(tracked.uncommittedSteps) > 0
  /\ ~CommitCreated =>
       \A p \in 1 .. Len(doc) :
         doc[p] \notin Chars(snaps[Len(snaps)])
           => Attribution(m, p - 1) = n
  /\ CommitCreated =>
       /\ tracked.commits[n].id = n - 1
       /\ IndexOf(tracked.commits, tracked.commits[n].id) = n - 1
       /\ \A p \in 1 .. Len(doc) :
            doc[p] \notin Chars(snaps[Len(snaps) - 1])
              => Attribution(m, p - 1) = n - 1
  /\ (/\ CommitCreated /\ n = 1
      /\ \E k \in 1 .. MaxDocLen :
           tracked.commits[1].steps
             = <<ReplaceStep(Len(snaps[1]), Len(snaps[1]) + k, <<>>)>>)
       => m = <<Span(0, Len(snaps[1]), NoCommit),
                Span(Len(snaps[1]), Len(doc), 0)>>

\* C6 witness: a second commit has just been created from edits that
\* inserted content
C6_Witness ==
  /\ CommitCreated /\ last.cmd = "doCommit"
  /\ Len(tracked.commits) = 2
  /\ \E p \in 1 .. Len(doc) : doc[p] \notin Chars(snaps[Len(snaps) - 1])

\* ---- C7: revert safety
RevertRejected ==
  \/ IndexOf(last.tracked.commits, last.arg) = Null
  \/ Len(last.tracked.uncommittedSteps) > 0

\* C7 (revert safety): revertCommit never throws; it returns false exactly
\* when the commit is not in the history or edits are pending, and then the
\* document, the plugin states and the transaction (no steps, no commit
\* message) are unchanged; in every other case it returns true.
C7_RevertSafety ==
  last.cmd = "revertCommit" =>
    /\ ~last.threw
    /\ last.ret = ~RevertRejected
    /\ ~last.ret =>
         /\ doc = last.doc
         /\ tracked = last.tracked
         /\ highlight = last.highlight
         /\ last.tr = EmptyTr

\* C7 witness: a revert of a commit of the history was rejected because
\* edits were pending
C7_Witness ==
  /\ last.cmd = "revertCommit" /\ ~last.ret
  /\ IndexOf(last.tracked.commits, last.arg) # Null
  /\ Len(last.tracked.uncommittedSteps) > 0

\* C8: the commit command returns false when no edits are pending, and true
\* only when a commit is created.
C8_CommitReturn ==
  last.cmd = "doCommit" =>
    /\ Len(last.tracked.uncommittedSteps) = 0 => ~last.ret
    /\ last.ret => CommitCreated

\* C8 failing input reached: doCommit ran with nothing pending
C8_Reached ==
  last.cmd = "doCommit" /\ Len(last.tracked.uncommittedSteps) = 0

\* ---- highlight
\* the ranges the blame map attributes to the commit at index i
RangesOf(ts, i) ==
  { [from |-> ts.blameMap[k].from, to |-> ts.blameMap[k].to] :
      k \in { j \in 1 .. Len(ts.blameMap) : ts.blameMap[j].commit = i } }

\* C9 (highlight add): for every commit c of the history, the commit at
\* index 0 included, add(c) from Idle yields an overlay with activeCommit = c
\* and exactly one decoration for each span attributed to c's index.
C9_HighlightAdd ==
  (/\ last.cmd = "highlightCommit"
   /\ last.highlight.commit = Null
   /\ IndexOf(last.tracked.commits, last.arg) # Null)
    => /\ highlight.commit = last.arg
       /\ highlight.deco
            = RangesOf(last.tracked, IndexOf(last.tracked.commits, last.arg))

\* C9 failing input reached: the commit at index 0, to which the blame map
\* attributes a span, was highlighted from Idle
C9_Reached ==
  /\ last.cmd = "highlightCommit" /\ last.highlight.commit = Null
  /\ IndexOf(last.tracked.commits, last.arg) = 0
  /\ RangesOf(last.tracked, 0) # {}

\* C10 (idempotent highlight): in every reachable state and for every
\* commit c, highlight(c) applied twice in a row leaves the overlay that one
\* application leaves; add(c) while c is highlighted changes nothing.
C10_IdempotentHighlight ==
  /\ \A id \in CommitIds :
       LET tr == highlightCommit(id).tr
           h1 == HighlightApply(tr, highlight, tracked)
           t1 == TrackApply(tr, tracked, doc, time + 1)
           h2 == HighlightApply(tr, h1, t1)
       IN h1.commit = id /\ h2 = h1
  /\ (last.cmd = "highlightCommit" /\ last.highlight.commit = last.arg)
       => highlight = last.highlight

\* C10 witness: highlight(c) ran on a state that already highlighted c with
\* a non-empty overlay
C10_Witness ==
  /\ last.cmd = "highlightCommit"
  /\ last.highlight.commit = last.arg
  /\ last.highlight.deco # {}
  /\ highlight = last.highlight

\* C11 (highlight clear): clearHighlight(d) moves the overlay to Idle (no
\* decorations, activeCommit = none) if and only if d is the active commit;
\* a clear for any other commit, or a clear while Idle, leaves the
\* decorations and activeCommit unchanged.
C11_HighlightClear ==
  last.cmd = "clearHighlightCommit" =>
    IF last.highlight.commit = last.arg
      THEN highlight = HighlightInit
      ELSE highlight = last.highlight

\* C11 witness: the active commit, shown with a non-empty overlay, was cleared
C11_Witness ==
  /\ last.cmd = "clearHighlightCommit"
  /\ last.highlight.commit = last.arg
  /\ last.highlight.deco # {}
  /\ highlight = HighlightInit

\* a clear that names another commit than the active one left the overlay alone
C11_WitnessOther ==
  /\ last.cmd = "clearHighlightCommit"
  /\ last.highlight.commit # Null
  /\ last.highlight.commit # last.arg
  /\ last.highlight.deco # {}
  /\ highlight = last.highlight

\* ---- C12: remapping the overlay
\* the range r after the steps of an edit when each of them is a pure
\* insertion strictly before the range (as moved so far): <<range>>, and
\* <<>> for every other edit
RECURSIVE ShiftBy(_, _)
ShiftBy(r, steps) ==
  IF steps = <<>> THEN <<r>>
  ELSE LET s == Head(steps) IN
       IF s.from = s.to /\ Len(s.slice) > 0 /\ s.from < r.from
         THEN ShiftBy([from |-> r.from + Len(s.slice),
                       to |-> r.to + Len(s.slice)], Tail(steps))
         ELSE <<>>

\* C12 (highlight remap): while Highlighting(c) with a non-empty overlay, an
\* edit that inserts n positions of text strictly before a highlighted range
\* shifts that range forward by exactly n, keeping its length, and leaves
\* activeCommit = c.
C12_HighlightRemap ==
  (last.cmd = "edit" /\ last.highlight.commit # Null)
    => \A r \in last.highlight.deco :
         ShiftBy(r, last.tr.steps) # <<>>
           => /\ ShiftBy(r, last.tr.steps)[1] \in highlight.deco
              /\ highlight.commit = last.highlight.commit

\* C12 witness: text was inserted strictly before a highlighted range
C12_Witness ==
  /\ last.cmd = "edit" /\ last.highlight.commit # Null
  /\ \E r \in last.highlight.deco :
       /\ ShiftBy(r, last.tr.steps) # <<>>
       /\ ShiftBy(r, last.tr.steps)[1] \in highlight.deco
       /\ ShiftBy(r, last.tr.steps)[1].from > r.from

\* ---- C13: the blame map against a per-position reference
\* where each position of the document after `steps` comes from: the
\* position it had in the document before them, or Null for inserted content
RECURSIVE Origins(_, _)
Origins(o, steps) ==
  IF steps = <<>> THEN o
  ELSE LET s == Head(steps) IN
       Origins(SubSeq(o, 1, s.from) \o [k \in 1 .. Len(s.slice) |-> Null]
                 \o SubSeq(o, s.to + 1, Len(o)),
               Tail(steps))

OldPositions(n) == [k \in 1 .. n |-> k - 1]

\* the origins of the document after the last transaction
LastOrigins == Origins(OldPositions(Len(last.doc)), last.tr.steps)

SpanCommits(map) == { map[k].commit : k \in 1 .. Len(map) }

\* the span's content is no longer in the document
SpanDeleted(span, o) ==
  \A q \in span.from .. (span.to - 1) : \A p \in 1 .. Len(o) : o[p] # q

\* C13 (attribution update against a per-position reference): after
\* applyTransform every position of the old document that survives the edit
\* keeps the attribution it had, every position inserted by a step of the
\* transform and still present at its end is attributed to commits.length,
\* spans whose content was entirely deleted are gone, and a pure deletion
\* never introduces the pending id.
C13_PerPosition ==
  DocChanged(last.tr) =>
    LET o == LastOrigins
        old == last.tracked.blameMap
        new == tracked.blameMap
        id == Len(last.tracked.commits)
    IN /\ Len(o) = Len(doc)
       /\ \A p \in 1 .. Len(o) :
            Attribution(new, p - 1)
              = (IF o[p] = Null THEN id ELSE Attribution(old, o[p]))
       /\ \A k \in 1 .. Len(new) :
            0 <= new[k].from /\ new[k].from < new[k].to /\ new[k].to <= Len(doc)
       /\ Len(new) <= Len(doc)
       /\ \A c \in SpanCommits(old) :
            (c # id /\ \A k \in 1 .. Len(old) :
                         old[k].commit = c => SpanDeleted(old[k], o))
              => c \notin SpanCommits(new)
       /\ (\A k \in 1 .. Len(last.tr.steps) : last.tr.steps[k].slice = <<>>)
            => (id \in SpanCommits(new) => id \in SpanCommits(old))

\* C13 witness: a two-step edit inserted content that is still present,
\* deleted the whole content of one span and left part of another
C13_Witness ==
  /\ last.cmd = "edit" /\ Len(last.tr.steps) = 2
  /\ \E p \in 1 .. Len(LastOrigins) : LastOrigins[p] = Null
  /\ \E p \in 1 .. Len(LastOrigins) : LastOrigins[p] # Null
  /\ Len(last.tracked.blameMap) >= 2
  /\ \E k \in 1 .. Len(last.tracked.blameMap) :
       /\ SpanDeleted(last.tracked.blameMap[k], LastOrigins)
       /\ last.tracked.blameMap[k].commit \notin SpanCommits(tracked.blameMap)

\* a pure deletion ran on a map that holds no pending span
C13_WitnessDeletion ==
  /\ DocChanged(last.tr)
  /\ \A k \in 1 .. Len(last.tr.steps) : last.tr.steps[k].slice = <<>>
  /\ Len(last.tracked.commits) \notin SpanCommits(tracked.blameMap)
  /\ Len(last.tracked.blameMap) >= 2

\* ---- C14: applyCommit
\* new is old after applyCommit: unchanged when nothing was pending, else one
\* more Commit that holds the old pending buffers, empty buffers, same map
CommitFolded(old, new) ==
  IF Len(old.uncommittedSteps) = 0 THEN new = old
  ELSE /\ Len(new.commits) = Len(old.commits) + 1
       /\ SubSeq(new.commits, 1, Len(old.commits)) = old.commits
       /\ new.commits[Len(new.commits)].steps = old.uncommittedSteps
       /\ new.commits[Len(new.commits)].maps = old.uncommittedMaps
       /\ new.uncommittedSteps = <<>>
       /\ new.uncommittedMaps = <<>>
       /\ new.blameMap = old.blameMap

\* C14 (applyCommit): when the pending buffer is empty the state is returned
\* unchanged (commits does not grow); otherwise the new state has commits =
\* old commits followed by one Commit whose steps and maps are exactly the
\* old pending buffers in order, both pending buffers empty, and the blame
\* map identical to the old one.
C14_ApplyCommit ==
  /\ \A message \in {<<>>, <<"m">>} :
       LET r == applyCommit(tracked, message, time + 1) IN
       /\ CommitFolded(tracked, r)
       /\ Len(tracked.uncommittedSteps) # 0
            => /\ r.commits[Len(r.commits)].message = message
               /\ r.commits[Len(r.commits)].time = time + 1
  /\ (last.cmd = "doCommit" /\ last.tr.message # <<>>)
       => CommitFolded(last.tracked, tracked)

\* C14 witness: a commit command folded a pending buffer of two steps into
\* the second commit of the history
C14_Witness ==
  /\ last.cmd = "doCommit" /\ CommitCreated
  /\ Len(last.tracked.uncommittedSteps) >= 2
  /\ Len(tracked.commits) = 2
  /\ tracked.commits[2].steps = last.tracked.uncommittedSteps

\* a commit command with a message ran on an empty pending buffer
C14_WitnessEmpty ==
  /\ last.cmd = "doCommit" /\ last.tr.message # <<>>
  /\ Len(last.tracked.uncommittedSteps) = 0
  /\ Len(last.tracked.commits) >= 1
  /\ tracked = last.tracked

\* ---- C15: what a revert leaves in the history
\* the inverses of the steps of a transaction that starts at document d
InversesOf(steps, d) ==
  [i \in 1 .. Len(steps) |-> StepInvert(steps[i], TransformDocs(d, steps)[i])]

\* the state after the revert holds one more commit, named after the target,
\* made of the inverses of the revert's steps, and nothing pending
RevertCommitted ==
  LET old == last.tracked.commits
      new == tracked.commits
  IN /\ Len(new) = Len(old) + 1
     /\ SubSeq(new, 1, Len(old)) = old
     /\ new[Len(new)].message = <<"Revert">> \o old[RevertIndex + 1].message
     /\ new[Len(new)].steps = InversesOf(last.tr.steps, last.doc)
     /\ tracked.uncommittedSteps = <<>>
     /\ tracked.uncommittedMaps = <<>>

\* some step of the last transaction changed the document it was applied to
StepsChangeDoc ==
  \E i \in 1 .. Len(last.tr.steps) :
    StepApply(TransformDocs(last.doc, last.tr.steps)[i], last.tr.steps[i])
      # TransformDocs(last.doc, last.tr.steps)[i]

\* C15 (revert postcondition through the plugin): when a successful revert's
\* transaction changes the document and is applied, the resulting track
\* state has exactly one more commit than before, whose message is
\* Revert '<target message>' and whose steps are the inverses of the
\* revert's own steps, and its pending buffers are empty; when the revert's
\* transaction changes nothing, it carries no commit message and the track
\* state (commits, pending buffers, blame map) is unchanged.
C15_RevertPost ==
  RevertDone =>
    IF StepsChangeDoc
      THEN RevertCommitted
      ELSE ~last.tr.metaSet /\ tracked = last.tracked

\* C15 failing input reached: a successful revert whose transaction holds
\* only steps that replace nothing by nothing
C15_Reached ==
  RevertDone /\ ~StepsChangeDoc /\ last.tr.metaSet

\* the same postcondition keyed on tr.docChanged, the presence of a step
C15_ByDocChanged ==
  RevertDone =>
    IF DocChanged(last.tr)
      THEN RevertCommitted
      ELSE ~last.tr.metaSet /\ tracked = last.tracked

\* the postcondition as stated, on builds whose Step.map tests `deleted`
C15_OnDeletedLib ==
  lib = "deleted" => C15_RevertPost

\* ---- C16: the revert loop
\* the loop of the last revert, run again on the state the revert ran on
LastRevertLoop ==
  LET commit == last.tracked.commits[RevertIndex + 1] IN
  RevertLoop(RevertStart(last.tracked, last.doc, RevertIndex),
             commit, Len(commit.steps) - 1, lib)

Count(log) == Cardinality({ k \in 1 .. Len(log) : log[k].applied })

IsPrefix(a, b) == Len(a) <= Len(b) /\ SubSeq(b, 1, Len(a)) = a

\* C17 (append-only, immutable history): across every transition (edit,
\* commit, revert, highlight) the old commits sequence is a prefix of the new
\* one, so that no existing Commit's message, time, steps or maps changes,
\* it grows by at most one entry per transaction, and a transaction without
\* a commit message leaves commits unchanged.
C17_AppendOnly ==
  [][/\ IsPrefix(tracked.commits, tracked'.commits)
     /\ Len(tracked'.commits) <= Len(tracked.commits) + 1
     /\ (~last'.tr.metaSet \/ last'.tr.message = <<>>)
          => tracked'.commits = tracked.commits]_vars

\* C17 witness: a revert appended the third commit of the history
C17_Witness ==
  /\ last.cmd = "revertCommit" /\ CommitCreated
  /\ Len(tracked.commits) = 3
  /\ SubSeq(tracked.commits, 1, 2) = last.tracked.commits

\* ---- C18: the overlay against the blame map
\* the ranges the blame map attributes to the commit object `id`
RangesOfCommit(ts, id) ==
  IF IndexOf(ts.commits, id) = Null THEN {}
  ELSE RangesOf(ts, IndexOf(ts.commits, id))

\* C18 (overlay in sync with attribution): in every reachable state where
\* the overlay is Highlighting(c), the set of highlighted ranges equals the
\* set of ranges attributed to c in the current blame map, for any sequence
\* of edits (insertions inside, at the edges of, or deletions across the
\* highlighted ranges) and commits made after the highlight was added.
C18_OverlaySync ==
  highlight.commit # Null
    => highlight.deco = RangesOfCommit(tracked, highlight.commit)

\* C18 restricted to commits at an index >= 1, whose overlay is right when
\* it is added
C18_FromIndexOne ==
  (highlight.commit # Null /\ IndexOf(tracked.commits, highlight.commit) >= 1)
    => highlight.deco = RangesOfCommit(tracked, highlight.commit)

\* C18 failing input reached: an edit inserted content inside a range that
\* was highlighted, and in sync with the blame map, before the edit
C18_Reached ==
  /\ last.cmd = "edit"
  /\ last.highlight.commit # Null
  /\ last.highlight.deco # {}
  /\ last.highlight.deco = RangesOfCommit(last.tracked, last.highlight.commit)
  /\ highlight.deco # RangesOfCommit(tracked, highlight.commit)

\* ---- C19: steps and maps side by side
\* inverse step inv and step map m come from one original step: the step
\* replaced m.oldSize positions at m.start by m.newSize positions, its
\* inverse puts the m.oldSize positions back in place of the m.newSize ones
Aligned(inv, m) ==
  /\ inv.from = m.start
  /\ inv.to - inv.from = m.newSize
  /\ Len(inv.slice) = m.oldSize

AlignedAll(steps, maps) ==
  /\ Len(steps) = Len(maps)
  /\ \A i \in 1 .. Len(steps) : Aligned(steps[i], maps[i])

\* the buffer the last transaction's steps went to: the commit it created,
\* or the pending buffer
LastBuffer ==
  IF CommitCreated
    THEN [steps |-> tracked.commits[Len(tracked.commits)].steps,
          maps |-> tracked.commits[Len(tracked.commits)].maps]
    ELSE [steps |-> tracked.uncommittedSteps,
          maps |-> tracked.uncommittedMaps]

\* C19 (buffer alignment): in every reachable state the pending steps and
\* pending maps have equal length and correspond index for index in forward
\* (applied) order, and every Commit of the history has steps and maps of
\* equal length that is at least 1 (no empty commit is ever created).
C19_BufferAlignment ==
  /\ AlignedAll(tracked.uncommittedSteps, tracked.uncommittedMaps)
  /\ \A c \in 1 .. Len(tracked.commits) :
       /\ AlignedAll(tracked.commits[c].steps, tracked.commits[c].maps)
       /\ Len(tracked.commits[c].steps) >= 1
  /\ ~last.threw =>
       /\ LastBuffer.steps = last.tracked.uncommittedSteps
                               \o InversesOf(last.tr.steps, last.doc)
       /\ LastBuffer.maps = last.tracked.uncommittedMaps
                              \o TransformMaps(last.tr.steps)

\* C19 witness: after a commit, two transactions have filled the pending
\* buffer with two different steps
C19_Witness ==
  /\ last.cmd = "edit"
  /\ Len(tracked.commits) >= 1
  /\ Len(last.tracked.uncommittedSteps) = 1
  /\ Len(tracked.uncommittedSteps) = 2
  /\ tracked.uncommittedMaps[1] # tracked.uncommittedMaps[2]

\* ---- C20: a commit request through the plugin
\* the last transaction created a commit that holds every pending step and
\* the transaction's own
CommitHoldsAll ==
  /\ CommitCreated
  /\ tracked.commits[Len(tracked.commits)].steps
       = last.tracked.uncommittedSteps \o InversesOf(last.tr.steps, last.doc)
  /\ tracked.commits[Len(tracked.commits)].message = last.tr.message
  /\ tracked.uncommittedSteps = <<>>

\* the last transaction asked for a commit while edits were pending or it
\* changed the document itself
CommitRequested ==
  /\ ~last.threw /\ last.tr.metaSet
  /\ (Len(last.tracked.uncommittedSteps) > 0 \/ DocChanged(last.tr))

\* C20: a commit request delivered through the plugin on a state with at
\* least one pending edit (or in the same transaction as a document change)
\* creates a commit containing all pending edits including that
\* transaction's own steps, for every message string, including the empty
\* string.
C20_CommitRequest == CommitRequested => CommitHoldsAll

\* C20 failing input reached: doCommit with the empty message ran on a state
\* with pending edits
C20_Reached ==
  /\ last.cmd = "doCommit" /\ last.tr.message = <<>>
  /\ Len(last.tracked.uncommittedSteps) > 0
  /\ tracked = last.tracked

\* C20 for the messages that are not the empty string
C20_NonEmptyMessage ==
  (CommitRequested /\ last.tr.message # <<>>) => CommitHoldsAll

====
